---- MODULE Spec2Model ----
(***************************************************************************)
(* APBMaster (src/common/apb_driver.py): the APB bus transactor of the     *)
(* rvcore test bench, as a state machine.                                  *)
(*                                                                         *)
(* One step of the model is one run of the coroutine between two awaits:   *)
(* a call of write/read runs up to its first `await RisingEdge`, and every *)
(* rising edge of the clock resumes the coroutine, which runs up to its    *)
(* next await, its return or its raise.  A value the coroutine assigns to  *)
(* a signal is what the DUT sees at the next rising edge, so the state      *)
(* between two steps is exactly what the DUT observes at the rising edge   *)
(* that follows.  What the DUT presents on its outputs at a rising edge is *)
(* an input of that step; the transactor keeps of it only what it samples. *)
(***************************************************************************)
EXTENDS Integers, FiniteSets, Sequences, TLC

\* ------------------------------------------------------------------ bounds
\* Largest address and data value of the bounded sets.
MaxAddr == 1
MaxData == 1
\* Largest number of places (object, naming form) a group of roles exists at.
MaxPlaces == 2
\* The bound of the ready wait: 5000 in the source (apb_driver.py:203),
\* scaled down; every formula is stated in terms of max_cycles.
max_cycles == 3
\* Largest number of '_' characters appended to a prefix.
MaxPad == 2
\* _wait_pready logs every 500th iteration (l.209); scaled with max_cycles.
log_every == 2

Addr == 0..MaxAddr
Data == 0..MaxData

\* A signal value that int() cannot convert (X or Z): int(sig.value) raises
\* ValueError on it.
Unresolved == 0 - 1

Bit == {0, 1}
BitX == Bit \cup {Unresolved}
DataX == Data \cup {Unresolved}

VARIABLES
    \* ---- the coroutine (APBMaster.write / read / _wait_pready)
    pc,          \* "idle" | "setup" (await l.140/182) | "poll" (await l.215) | "hold" (await l.213)
    op,          \* "none" | "write" | "read": the call in progress or last made
    addr,        \* its argument addr
    data,        \* its argument data (write)
    cycle,       \* the loop variable of _wait_pready
    outcome,     \* how the last call ended: "none" (running) | "Success" | "SlaveError"
                 \* (both returned) | "Timeout" | "ValueError" (both raised)
    val,         \* the value part of read's result
    pslverrBound,\* self.pslverr is not None
    \* ---- the signals the transactor drives
    paddr, pwdata, pwrite, psel, penable,
    \* ---- the DUT
    dutKind,     \* "free": any outputs; "reg": a simple register slave
    mem,         \* the register slave's storage
    \* ---- history (not program state)
    edges,       \* rising edges since the call in progress (or last made) started
    idled,       \* a rising edge has passed since the last call ended
    readySeen,   \* ready was sampled as 1 in this call
    errAtReady,  \* slave_error at the sample at which ready was sampled as 1
    dataAtReady, \* read_data at that sample
    errAtHold,   \* slave_error one rising edge later, where write/read resumes
    dataAtHold,  \* read_data at that later sample
    lastWrite,   \* <<a, d>> when the previous call was a write(a, d) that returned success
    prevOutcome, \* how the call before this one ended ("none": there was none)
    wdataBefore, \* write_data as it was when this call was made
    \* ---- construction (APBMaster.__init__) and the DUT's names
    prefixArg,   \* the argument prefix, a string (sequence of characters)
    dutTop,      \* the names of the signals the DUT itself exposes
    dutKids,     \* the DUT's sub-components in dir() order: [name, sigs]
    hasLog,      \* the DUT has a diagnostics sink: getattr(dut, '_log', None) is not None
    logged,      \* the entries the sink received since the last call began
    bState,      \* "new" (not constructed) | "bound" | "BindingError"
    bind,        \* role -> the handle bound (NoHandle: None, or not yet set)
    _names,      \* role -> the access path recorded (NoPath: None,
                 \* or not yet set)
    failedRole,  \* the role whose find_signal raised ("none": none did)
    errTried,    \* the candidates its AttributeError lists (<<>>: none raised)
    again,       \* what a second construction on the same DUT with the same
                 \* prefix gave (NotYet: there was none)
    \* ---- a second logical thread calling write/read on the same instance
    other,       \* the coroutine frame (and call history) of the thread not running
    owed,        \* the last rising edge has resumed one thread only and is owed
                 \* to the thread not running ("other") or the running one
                 \* ("me"); "no": every waiting thread has been resumed
    smp          \* what the DUT presented at that rising edge

drv == <<paddr, pwdata, pwrite, psel, penable>>
seen == <<readySeen, errAtReady, dataAtReady>>
held == <<errAtHold, dataAtHold>>
past == <<lastWrite, prevOutcome, wdataBefore>>
hist == <<edges, idled, seen, held, past>>
layout == <<prefixArg, dutTop, dutKids, hasLog>>
bvars == <<layout, bState, bind, _names, failedRole, errTried, again>>
\* ... and of it, what is not a binding
brest == <<layout, bState, _names, failedRole, errTried, again>>
cvars == <<other, owed, smp>>
vars == <<pc, op, addr, data, cycle, outcome, val, pslverrBound, drv,
          dutKind, mem, hist, bvars, cvars, logged>>

NoWrite == <<Unresolved, Unresolved>>

TypeOK ==
    /\ pc \in {"idle", "setup", "poll", "hold"}
    /\ op \in {"none", "write", "read"}
    /\ addr \in Addr /\ data \in Data
    /\ cycle \in 0..max_cycles
    /\ outcome \in {"none", "Success", "SlaveError", "Timeout", "ValueError"}
    /\ val \in Data
    /\ pslverrBound \in BOOLEAN
    /\ paddr \in Addr /\ pwdata \in Data
    /\ pwrite \in Bit /\ psel \in Bit /\ penable \in Bit
    /\ dutKind \in {"free", "reg", "plain", "prompt", "floating"}
    /\ mem \in [Addr -> DataX]
    /\ other.pc \in {"idle", "setup", "poll", "hold"}
    /\ owed \in {"no", "other", "me"}
    /\ hasLog \in BOOLEAN
    /\ Len(logged) <= 4 + (max_cycles \div log_every) + 1
    /\ edges \in 0..(max_cycles + 1)
    /\ bState \in {"new", "bound", "BindingError"}
    /\ failedRole \in {"none", "paddr", "psel", "penable", "pwrite", "pwdata",
                      "pready", "prdata"}
    /\ idled \in BOOLEAN /\ readySeen \in BOOLEAN
    /\ errAtReady \in BitX /\ errAtHold \in BitX
    /\ dataAtReady \in DataX /\ dataAtHold \in DataX
    /\ prevOutcome \in {"none", "Success", "SlaveError", "Timeout", "ValueError"}
    /\ wdataBefore \in Data

\* --------------------------------------------------- names and the Binder
\* Strings are sequences of characters, so that rstrip and replace act on
\* them as the source's do.  A run of characters that holds no '_' and does
\* not end in 'i' ("cpu", "apb", a base name) is written as one element:
\* neither operation can split it.
Us == <<"_">>
Str_i_cpu_apb == <<"i", "_", "cpu", "_", "apb">>
Str_o_cpu_apb == <<"o", "_", "cpu", "_", "apb">>
Str_o_i_cpu_apb == <<"o", "_", "i", "_", "cpu", "_", "apb">>

\* The eight roles, in the order __init__ resolves them (l.76-86), and the
\* base name of each.
RoleOrder == <<"paddr", "psel", "penable", "pwrite", "pwdata", "pready",
               "prdata", "pslverr">>
RoleIds == {RoleOrder[i] : i \in 1..Len(RoleOrder)}
\* Mutant of Mandatory: slave_error is resolved unguarded like the others.
Mandatory_All == RoleIds
Mandatory == RoleIds \ {"pslverr"}
Driven == {"paddr", "psel", "penable", "pwrite", "pwdata"}
Sampled == {"pready", "prdata"}
BaseName == [r \in RoleIds |-> <<r>>]

\* str.rstrip('_'), l.7.
\* Mutant of RStrip: one trailing '_' is removed, not all of them.
RStrip_Once(str) ==
    IF Len(str) > 0 /\ str[Len(str)] = "_"
    THEN SubSeq(str, 1, Len(str) - 1)
    ELSE str

RECURSIVE RStrip(_)
RStrip(str) ==
    IF Len(str) > 0 /\ str[Len(str)] = "_"
    THEN RStrip(SubSeq(str, 1, Len(str) - 1))
    ELSE str

\* self.prefix, l.7.
SelfPrefix == RStrip(prefixArg)

\* Mutant of ReplaceIO: no substitution is made.
RECURSIVE ReplaceIO_None(_)
ReplaceIO_None(str) ==
    IF Len(str) = 0 THEN <<>> ELSE <<Head(str)>> \o ReplaceIO_None(Tail(str))

\* Mutant of ReplaceIO: the markers are swapped in both directions, 'o_'
\* becomes 'i_' as 'i_' becomes 'o_'.
RECURSIVE ReplaceIO_BothWays(_)
ReplaceIO_BothWays(str) ==
    IF Len(str) = 0 THEN <<>>
    ELSE IF Len(str) >= 2 /\ str[1] = "i" /\ str[2] = "_"
    THEN <<"o", "_">> \o ReplaceIO_BothWays(SubSeq(str, 3, Len(str)))
    ELSE IF Len(str) >= 2 /\ str[1] = "o" /\ str[2] = "_"
    THEN <<"i", "_">> \o ReplaceIO_BothWays(SubSeq(str, 3, Len(str)))
    ELSE <<Head(str)>> \o ReplaceIO_BothWays(Tail(str))

\* str.replace('i_', 'o_'), l.19: every occurrence, left to right.
RECURSIVE ReplaceIO(_)
ReplaceIO(str) ==
    IF Len(str) = 0 THEN <<>>
    ELSE IF Len(str) >= 2 /\ str[1] = "i" /\ str[2] = "_"
    THEN <<"o", "_">> \o ReplaceIO(SubSeq(str, 3, Len(str)))
    ELSE <<Head(str)>> \o ReplaceIO(Tail(str))

\* s(name), l.11-12.
PrefixedName(base) == SelfPrefix \o Us \o base

\* candidates, l.16-20, of an instance whose self.prefix is p.
CandidatesFor(p, base) ==
    << p \o Us \o base,
       <<"o", "_">> \o p \o Us \o base,
       ReplaceIO(p) \o Us \o base >>

\* candidates, l.16-20.
Candidates(base) == CandidatesFor(SelfPrefix, base)

\* What find_signal returns: the object (0: the DUT, k: its k-th
\* sub-component in dir() order) and the attribute name found on it.
NoHandle == [loc |-> 0 - 1, name |-> <<>>]
NotYet == [state |-> "new"]
Handle(l, n) == [loc |-> l, name |-> n]

\* The position of the first name of the sequence that is in the set, 0 when
\* none is: `for name in ...: try: return getattr(obj, name)`.
FirstIn(names, sigs) ==
    LET I == {i \in 1..Len(names) : names[i] \in sigs}
    IN IF I = {} THEN 0 ELSE CHOOSE i \in I : \A j \in I : i <= j

\* l.34-46: the sub-components that hold one of the names, those whose name
\* starts with '_' skipped.
KidsWithIn(names, kids) ==
    {k \in 1..Len(kids) :
        /\ ~(Len(kids[k].name) > 0 /\ kids[k].name[1] = "_")
        /\ FirstIn(names, kids[k].sigs) # 0}
KidsWith(names) == KidsWithIn(names, dutKids)

\* Mutant of FirstKid: the order in which the sub-components are reached is
\* not the same in every construction.
FirstKid_Unsorted(K) ==
    IF bState = "new" THEN CHOOSE k \in K : \A j \in K : k <= j
    ELSE CHOOSE k \in K : \A j \in K : k >= j

\* l.34: `for attr in dir(dut)` reaches the sub-components in the order of
\* dir(), which is sorted by name, the order dutKids is kept in: of the
\* sub-components K that hold a name the first one is returned from.
FirstKid(K) == CHOOSE k \in K : \A j \in K : k <= j

\* Mutant of FindSignal: the sub-components are searched before the bare
\* base name on the DUT.
FindSignal_NestedBeforeBare(base) ==
    LET cands == Candidates(base)
        all == cands \o <<base>>
        t == FirstIn(cands, dutTop)
        K == KidsWith(all)
    IN IF t # 0 THEN Handle(0, cands[t])
       ELSE IF K # {}
       THEN LET k == CHOOSE k \in K : \A j \in K : k <= j
            IN Handle(k, all[FirstIn(all, dutKids[k].sigs)])
       ELSE IF base \in dutTop THEN Handle(0, base)
       ELSE NoHandle

\* find_signal, l.15-48, of an instance whose self.prefix is p, on a DUT
\* that has the names top itself and the sub-components kids; NoHandle
\* stands for the AttributeError of l.48.
FindWith(p, base, top, kids) ==
    LET cands == CandidatesFor(p, base)
        all == cands \o <<base>>
        t == FirstIn(cands, top)
        K == KidsWithIn(all, kids)
    IN IF t # 0 THEN Handle(0, cands[t])
       ELSE IF base \in top THEN Handle(0, base)
       ELSE IF K # {}
       THEN Handle(FirstKid(K), all[FirstIn(all, kids[FirstKid(K)].sigs)])
       ELSE NoHandle

\* find_signal of the instance under construction.
FindIn(base, top, kids) == FindWith(SelfPrefix, base, top, kids)

\* find_signal on the DUT the constructor is given.
FindSignal(base) == FindIn(base, dutTop, dutKids)

\* Mutant of Resolved: the naming form that won for address is the only one
\* the other roles are looked up under, on the object address was found on.
Resolved_FormOfAddress ==
    LET h == FindSignal(BaseName["paddr"])
        sigs == IF h.loc = 0 THEN dutTop ELSE dutKids[h.loc].sigs
        nameOf(r) == SubSeq(h.name, 1, Len(h.name) - 1) \o BaseName[r]
    IN [r \in RoleIds |->
          IF h = NoHandle THEN NoHandle
          ELSE IF nameOf(r) \in sigs THEN Handle(h.loc, nameOf(r))
          ELSE NoHandle]

\* l.76-88: every role resolved, each on its own.
Resolved == [r \in RoleIds |-> FindSignal(BaseName[r])]

\* What find_name returns: the name found on the DUT, "<attr>.<name>" for a
\* name found on the sub-component attr, NoPath for None.
NoPath == <<>>
NoNames == [r \in RoleIds |-> NoPath]
Dot == <<".">>

\* Mutant of FindNameIn: the bare base name is tried before the candidates.
FindNameIn_BareFirst(base, top, kids) ==
    LET cands == Candidates(base)
        all == cands \o <<base>>
        t == FirstIn(cands, top)
        K == KidsWithIn(all, kids)
    IN IF base \in top THEN base
       ELSE IF t # 0 THEN cands[t]
       ELSE IF K # {}
       THEN kids[FirstKid(K)].name \o Dot \o all[FirstIn(all, kids[FirstKid(K)].sigs)]
       ELSE NoPath

\* find_name, l.50-73: the same candidates in the same order as find_signal,
\* tested with hasattr.
FindNameIn(base, top, kids) ==
    LET cands == Candidates(base)
        all == cands \o <<base>>
        t == FirstIn(cands, top)
        K == KidsWithIn(all, kids)
    IN IF t # 0 THEN cands[t]
       ELSE IF base \in top THEN base
       ELSE IF K # {}
       THEN kids[FirstKid(K)].name \o Dot \o all[FirstIn(all, kids[FirstKid(K)].sigs)]
       ELSE NoPath

FindName(base) == FindNameIn(base, dutTop, dutKids)

\* self._names, l.91-100.
Names == [r \in RoleIds |-> FindName(BaseName[r])]

\* l.76-83: the first mandatory role, in the order of resolution, whose
\* find_signal raises; "none" when none does.
FirstMissing ==
    LET I == {i \in 1..Len(RoleOrder) :
                RoleOrder[i] \in Mandatory /\ Resolved[RoleOrder[i]] = NoHandle}
    IN IF I = {} THEN "none"
       ELSE RoleOrder[CHOOSE i \in I : \A j \in I : i <= j]

\* ---- the DUT layouts of the bounded model
\* A place is an object (0: the DUT, 1..3: a sub-component) and a naming
\* form; a role placed there exists on that object under that form.
KidNames == << <<"_", "t">>, <<"u", "_", "a">>, <<"u", "_", "b">> >>
Forms == << Str_i_cpu_apb, Str_o_cpu_apb, Str_o_i_cpu_apb, <<>> >>
FormName(f, base) == IF Forms[f] = <<>> THEN base ELSE Forms[f] \o Us \o base
Places == [loc : 0..Len(KidNames), form : 1..Len(Forms)]
PlaceSets == {P \in SUBSET Places : Cardinality(P) <= MaxPlaces}
TopPlaces == {q \in Places : q.loc = 0}
LastKidPlaces == {q \in Places : q.loc = Len(KidNames)}
BarePlace == [loc |-> 0, form |-> Len(Forms)]
\* The names on object l when the driven roles are placed at D, the sampled
\* mandatory roles at M and slave_error at E.
SigsAt(l, D, M, E) ==
    {FormName(q.form, BaseName[r]) : r \in Driven, q \in {x \in D : x.loc = l}}
    \cup {FormName(q.form, BaseName[r]) : r \in Sampled, q \in {x \in M : x.loc = l}}
    \cup {FormName(q.form, BaseName["pslverr"]) : q \in {x \in E : x.loc = l}}
KidsOf(D, M, E) ==
    [k \in 1..Len(KidNames) |-> [name |-> KidNames[k], sigs |-> SigsAt(k, D, M, E)]]
Prefixes == {Str_i_cpu_apb, Str_o_cpu_apb, Str_i_cpu_apb \o Us}

\* ---------------------------------------------------------- coroutine frames
\* The frame of the running thread's call: the locals and position of
\* write/read/_wait_pready, its result, and the history kept of it.
Frame ==
    [pc |-> pc, op |-> op, addr |-> addr, data |-> data, cycle |-> cycle,
     outcome |-> outcome, val |-> val, edges |-> edges, idled |-> idled,
     readySeen |-> readySeen, errAtReady |-> errAtReady,
     dataAtReady |-> dataAtReady, errAtHold |-> errAtHold,
     dataAtHold |-> dataAtHold, lastWrite |-> lastWrite,
     prevOutcome |-> prevOutcome, wdataBefore |-> wdataBefore]
\* The frame of a thread that has made no call yet, write_data being w.
NoCall(w) ==
    [pc |-> "idle", op |-> "none", addr |-> 0, data |-> 0, cycle |-> 0,
     outcome |-> "none", val |-> 0, edges |-> 0, idled |-> FALSE,
     readySeen |-> FALSE, errAtReady |-> Unresolved,
     dataAtReady |-> Unresolved, errAtHold |-> Unresolved,
     dataAtHold |-> Unresolved, lastWrite |-> NoWrite,
     prevOutcome |-> "none", wdataBefore |-> w]
NoSample == [pready |-> Unresolved, prdata |-> Unresolved, pslverr |-> Unresolved]

\* ------------------------------------------------------------------- Init
\* The state after construction.  __init__ drives no signal: the bus is as
\* the harness left it (idle, address and write data at any value).
Init ==
    /\ pc = "idle" /\ op = "none" /\ addr = 0 /\ data = 0 /\ cycle = 0
    /\ outcome = "none" /\ val = 0
    /\ pslverrBound \in BOOLEAN
    /\ paddr \in Addr /\ pwdata \in Data
    /\ pwrite = 0 /\ psel = 0 /\ penable = 0
    /\ dutKind \in {"free", "reg"}
    /\ mem = [a \in Addr |-> Unresolved]
    /\ edges = 0 /\ idled = FALSE /\ readySeen = FALSE
    /\ errAtReady = Unresolved /\ dataAtReady = Unresolved
    /\ errAtHold = Unresolved /\ dataAtHold = Unresolved
    /\ lastWrite = NoWrite
    /\ prevOutcome = "none" /\ wdataBefore = pwdata
    \* constructed with prefix i_cpu_apb on a DUT without sub-components
    \* that has the mandatory roles under their bare base names, and
    \* slave_error or not.
    /\ prefixArg = Str_i_cpu_apb
    /\ \E E \in {{}, {[loc |-> 0, form |-> 4]}} :
        /\ dutTop = SigsAt(0, {[loc |-> 0, form |-> 4]}, {[loc |-> 0, form |-> 4]}, E)
        /\ dutKids = <<>>
    /\ bState = "bound" /\ failedRole = "none" /\ errTried = <<>>
    /\ again = NotYet
    /\ bind = Resolved /\ _names = Names
    /\ pslverrBound = (Resolved["pslverr"] # NoHandle)
    \* one thread only
    /\ other = NoCall(0) /\ owed = "no" /\ smp = NoSample
    \* the harness's DUT has a sink (a cocotb handle has _log)
    /\ hasLog = TRUE /\ logged = <<>>

\* The state before construction, for every prefix and DUT layout of the
\* bounded model; the bus is idle, with some address and write data left
\* on it.
InitBind ==
    /\ pc = "idle" /\ op = "none" /\ addr = 0 /\ data = 0 /\ cycle = 0
    /\ outcome = "none" /\ val = 0
    /\ pslverrBound = FALSE
    /\ paddr = MaxAddr /\ pwdata = MaxData
    /\ pwrite = 0 /\ psel = 0 /\ penable = 0
    /\ dutKind = "free"
    /\ mem = [a \in Addr |-> Unresolved]
    /\ edges = 0 /\ idled = FALSE /\ readySeen = FALSE
    /\ errAtReady = Unresolved /\ dataAtReady = Unresolved
    /\ errAtHold = Unresolved /\ dataAtHold = Unresolved
    /\ lastWrite = NoWrite
    /\ prevOutcome = "none" /\ wdataBefore = pwdata
    /\ prefixArg \in Prefixes
    /\ \E D \in PlaceSets :
       \E M \in {D, {}} \cup {{q} : q \in TopPlaces \cup LastKidPlaces} :
       \E E \in {M, {}, {BarePlace}} :
        /\ dutTop = SigsAt(0, D, M, E)
        /\ dutKids = KidsOf(D, M, E)
    /\ bState = "new" /\ failedRole = "none" /\ errTried = <<>>
    /\ again = NotYet
    /\ bind = [r \in RoleIds |-> NoHandle] /\ _names = NoNames
    /\ other = NoCall(0) /\ owed = "no" /\ smp = NoSample
    /\ hasLog = TRUE /\ logged = <<>>

\* The state after construction with two threads that have the instance,
\* neither having made a call; the DUT is a plain slave and slave_error is
\* not bound.
InitConc ==
    /\ pc = "idle" /\ op = "none" /\ addr = 0 /\ data = 0 /\ cycle = 0
    /\ outcome = "none" /\ val = 0
    /\ paddr = 0 /\ pwdata = 0
    /\ pwrite = 0 /\ psel = 0 /\ penable = 0
    /\ dutKind = "plain"
    /\ mem = [a \in Addr |-> Unresolved]
    /\ edges = 0 /\ idled = FALSE /\ readySeen = FALSE
    /\ errAtReady = Unresolved /\ dataAtReady = Unresolved
    /\ errAtHold = Unresolved /\ dataAtHold = Unresolved
    /\ lastWrite = NoWrite
    /\ prevOutcome = "none" /\ wdataBefore = pwdata
    /\ prefixArg = Str_i_cpu_apb
    /\ dutTop = SigsAt(0, {[loc |-> 0, form |-> 4]}, {[loc |-> 0, form |-> 4]}, {})
    /\ dutKids = <<>>
    /\ bState = "bound" /\ failedRole = "none" /\ errTried = <<>>
    /\ again = NotYet
    /\ bind = Resolved /\ _names = Names
    /\ pslverrBound = (Resolved["pslverr"] # NoHandle)
    /\ other = NoCall(0) /\ owed = "no" /\ smp = NoSample
    /\ hasLog = FALSE /\ logged = <<>>

\* The state after construction on a DUT with a diagnostics sink and on one
\* without, the DUT free to present anything.
InitDiag ==
    /\ pc = "idle" /\ op = "none" /\ addr = 0 /\ data = 0 /\ cycle = 0
    /\ outcome = "none" /\ val = 0
    /\ paddr = 0 /\ pwdata = 0
    /\ pwrite = 0 /\ psel = 0 /\ penable = 0
    /\ dutKind = "free"
    /\ mem = [a \in Addr |-> Unresolved]
    /\ edges = 0 /\ idled = FALSE /\ readySeen = FALSE
    /\ errAtReady = Unresolved /\ dataAtReady = Unresolved
    /\ errAtHold = Unresolved /\ dataAtHold = Unresolved
    /\ lastWrite = NoWrite
    /\ prevOutcome = "none" /\ wdataBefore = pwdata
    /\ prefixArg = Str_i_cpu_apb
    /\ \E E \in {{}, {[loc |-> 0, form |-> 4]}} :
        /\ dutTop = SigsAt(0, {[loc |-> 0, form |-> 4]}, {[loc |-> 0, form |-> 4]}, E)
        /\ dutKids = <<>>
    /\ bState = "bound" /\ failedRole = "none" /\ errTried = <<>>
    /\ again = NotYet
    /\ bind = Resolved /\ _names = Names
    /\ pslverrBound = (Resolved["pslverr"] # NoHandle)
    /\ other = NoCall(0) /\ owed = "no" /\ smp = NoSample
    /\ hasLog \in BOOLEAN /\ logged = <<>>

\* The state after construction on a DUT that holds ready at 1, and on one
\* whose ready cannot be read until it is 1.
InitReady ==
    /\ pc = "idle" /\ op = "none" /\ addr = 0 /\ data = 0 /\ cycle = 0
    /\ outcome = "none" /\ val = 0
    /\ paddr = 0 /\ pwdata = 0
    /\ pwrite = 0 /\ psel = 0 /\ penable = 0
    /\ dutKind \in {"prompt", "floating"}
    /\ mem = [a \in Addr |-> Unresolved]
    /\ edges = 0 /\ idled = FALSE /\ readySeen = FALSE
    /\ errAtReady = Unresolved /\ dataAtReady = Unresolved
    /\ errAtHold = Unresolved /\ dataAtHold = Unresolved
    /\ lastWrite = NoWrite
    /\ prevOutcome = "none" /\ wdataBefore = pwdata
    /\ prefixArg = Str_i_cpu_apb
    /\ \E E \in {{}, {[loc |-> 0, form |-> 4]}} :
        /\ dutTop = SigsAt(0, {[loc |-> 0, form |-> 4]}, {[loc |-> 0, form |-> 4]}, E)
        /\ dutKids = <<>>
    /\ bState = "bound" /\ failedRole = "none" /\ errTried = <<>>
    /\ again = NotYet
    /\ bind = Resolved /\ _names = Names
    /\ pslverrBound = (Resolved["pslverr"] # NoHandle)
    /\ other = NoCall(0) /\ owed = "no" /\ smp = NoSample
    /\ hasLog = TRUE /\ logged = <<>>

\* -------------------------------------------------------------------- DUT
\* The register slave latches write_data at a rising edge where select,
\* enable and write_enable are all 1.
MemNext ==
    IF dutKind = "reg" /\ psel = 1 /\ penable = 1 /\ pwrite = 1
    THEN [mem EXCEPT ![paddr] = pwdata]
    ELSE mem

\* What the DUT presents at a rising edge, seeing the driven signals of the
\* current state.  "free": any DUT, each output takes any value, unreadable
\* ones included.  "reg": the register slave presents the stored value of
\* the addressed register on read_data, never asserts slave_error, and
\* answers ready when it likes.  "plain": a slave that answers ready when
\* it likes, with read_data 0 and no slave_error.  "prompt": a DUT that
\* holds ready at 1 (test_riscv_single.py l.212-214 drives it high by
\* default).  "floating": a DUT whose ready cannot be read until it is 1.
\* A thread resumed second at a rising edge sees what the DUT presented at
\* that edge.
DutOut ==
    IF owed = "me" THEN {smp}
    ELSE IF dutKind = "reg"
    THEN {[pready |-> r, prdata |-> MemNext[paddr], pslverr |-> 0] : r \in Bit}
    ELSE IF dutKind = "plain"
    THEN {[pready |-> r, prdata |-> 0, pslverr |-> 0] : r \in Bit}
    ELSE IF dutKind = "prompt"
    THEN [pready : {1}, prdata : DataX, pslverr : BitX]
    ELSE IF dutKind = "floating"
    THEN [pready : {Unresolved, 1}, prdata : DataX, pslverr : BitX]
    ELSE [pready : BitX, prdata : DataX, pslverr : BitX]

\* _clk_cycle, l.224-227: `await RisingEdge(self.clk)` resumes the running
\* thread at a rising edge at which the DUT presents o.  Every thread that
\* waits for the edge is resumed at it, one after the other: if the other
\* thread waits too, the edge is now owed to it.
Resumed(o) ==
    /\ owed # "other"
    /\ owed' = IF owed = "no" /\ other.pc # "idle" THEN "other" ELSE "no"
    /\ smp' = IF owed = "no" /\ other.pc # "idle" THEN o ELSE NoSample
    /\ other' = other

\* -------------------------------------------------- the transactor's steps
\* Mutant of DriveWrite: write_data is not driven.
DriveWrite_NoData(a, d) ==
    /\ paddr' = a
    /\ pwdata' = pwdata
    /\ pwrite' = 1
    /\ psel' = 1
    /\ penable' = 0

\* write, l.128-133: drive the Setup values.
DriveWrite(a, d) ==
    /\ paddr' = a
    /\ pwdata' = d
    /\ pwrite' = 1
    /\ psel' = 1
    /\ penable' = 0

\* Mutant of DriveRead: enable is not driven low at Setup.
DriveRead_KeepEnable(a) ==
    /\ paddr' = a
    /\ pwrite' = 0
    /\ psel' = 1
    /\ penable' = penable
    /\ pwdata' = pwdata

\* Mutant of DriveRead: write_data is driven (to 0) as well.
DriveRead_ClearsData(a) ==
    /\ paddr' = a
    /\ pwrite' = 0
    /\ psel' = 1
    /\ penable' = 0
    /\ pwdata' = 0

\* read, l.177-180: drive the Setup values; write_data is not driven.
DriveRead(a) ==
    /\ paddr' = a
    /\ pwrite' = 0
    /\ psel' = 1
    /\ penable' = 0
    /\ pwdata' = pwdata

\* l.205-211: `pv = int(self.pready.value)`, None when the conversion
\* raises, then `pv == 1`.
ReadyIsOne(v) == IF v = Unresolved THEN FALSE ELSE v = 1

\* Mutant of WaitPready: the loop runs one iteration short.
WaitPready_OneShort(c, o) ==
    IF c < max_cycles - 1
    THEN /\ cycle' = c
         /\ outcome' = "none"
         /\ IF ReadyIsOne(o.pready)
            THEN /\ pc' = "hold"
                 /\ readySeen' = TRUE
                 /\ errAtReady' = o.pslverr
                 /\ dataAtReady' = o.prdata
            ELSE /\ pc' = "poll"
                 /\ UNCHANGED seen
    ELSE /\ cycle' = cycle
         /\ outcome' = "Timeout"
         /\ pc' = "idle"
         /\ UNCHANGED seen

\* Mutant of WaitPready: past the last iteration the function returns
\* instead of raising, and the caller goes on to its result.
WaitPready_ReturnsAtBound(c, o) ==
    IF c < max_cycles
    THEN /\ cycle' = c
         /\ outcome' = "none"
         /\ IF ReadyIsOne(o.pready)
            THEN /\ pc' = "hold"
                 /\ readySeen' = TRUE
                 /\ errAtReady' = o.pslverr
                 /\ dataAtReady' = o.prdata
            ELSE /\ pc' = "poll"
                 /\ UNCHANGED seen
    ELSE /\ cycle' = cycle
         /\ outcome' = "Success"
         /\ pc' = "idle"
         /\ UNCHANGED seen

\* Mutant of WaitPready: no further edge is awaited once ready is seen.
WaitPready_NoHold(c, o) ==
    IF c < max_cycles
    THEN /\ cycle' = c
         /\ IF ReadyIsOne(o.pready)
            THEN /\ pc' = "idle"
                 /\ outcome' = "Success"
                 /\ readySeen' = TRUE
                 /\ errAtReady' = o.pslverr
                 /\ dataAtReady' = o.prdata
            ELSE /\ pc' = "poll"
                 /\ outcome' = "none"
                 /\ UNCHANGED seen
    ELSE /\ cycle' = cycle
         /\ outcome' = "Timeout"
         /\ pc' = "idle"
         /\ UNCHANGED seen

\* Mutant of WaitPready: an edge is awaited between the assertion of enable
\* and the first sample of ready.
WaitPready_LateFirstSample(c, o) ==
    IF c = 0
    THEN /\ cycle' = c
         /\ outcome' = "none"
         /\ pc' = "poll"
         /\ UNCHANGED seen
    ELSE IF c < max_cycles
    THEN /\ cycle' = c
         /\ outcome' = "none"
         /\ IF ReadyIsOne(o.pready)
            THEN /\ pc' = "hold"
                 /\ readySeen' = TRUE
                 /\ errAtReady' = o.pslverr
                 /\ dataAtReady' = o.prdata
            ELSE /\ pc' = "poll"
                 /\ UNCHANGED seen
    ELSE /\ cycle' = cycle
         /\ outcome' = "Timeout"
         /\ pc' = "idle"
         /\ UNCHANGED seen

\* Mutant of WaitPready: the conversion of ready is not guarded, a ready
\* that cannot be read raises.
WaitPready_RaisesOnUnreadable(c, o) ==
    IF c < max_cycles /\ o.pready = Unresolved
    THEN /\ cycle' = c
         /\ outcome' = "ValueError"
         /\ pc' = "idle"
         /\ UNCHANGED seen
    ELSE IF c < max_cycles
    THEN /\ cycle' = c
         /\ outcome' = "none"
         /\ IF ReadyIsOne(o.pready)
            THEN /\ pc' = "hold"
                 /\ readySeen' = TRUE
                 /\ errAtReady' = o.pslverr
                 /\ dataAtReady' = o.prdata
            ELSE /\ pc' = "poll"
                 /\ UNCHANGED seen
    ELSE /\ cycle' = cycle
         /\ outcome' = "Timeout"
         /\ pc' = "idle"
         /\ UNCHANGED seen

\* Mutant of WaitPready: the loop takes one iteration more than max_cycles.
WaitPready_OneMore(c, o) ==
    IF c <= max_cycles
    THEN /\ cycle' = c
         /\ outcome' = "none"
         /\ IF ReadyIsOne(o.pready)
            THEN /\ pc' = "hold"
                 /\ readySeen' = TRUE
                 /\ errAtReady' = o.pslverr
                 /\ dataAtReady' = o.prdata
            ELSE /\ pc' = "poll"
                 /\ UNCHANGED seen
    ELSE /\ cycle' = cycle
         /\ outcome' = "Timeout"
         /\ pc' = "idle"
         /\ UNCHANGED seen

\* Mutant of WaitPready: a ready seen at the last sample comes too late.
WaitPready_IgnoresLastSample(c, o) ==
    IF c < max_cycles
    THEN /\ cycle' = c
         /\ outcome' = "none"
         /\ IF ReadyIsOne(o.pready) /\ c < max_cycles - 1
            THEN /\ pc' = "hold"
                 /\ readySeen' = TRUE
                 /\ errAtReady' = o.pslverr
                 /\ dataAtReady' = o.prdata
            ELSE /\ pc' = "poll"
                 /\ UNCHANGED seen
    ELSE /\ cycle' = cycle
         /\ outcome' = "Timeout"
         /\ pc' = "idle"
         /\ UNCHANGED seen

\* _wait_pready, l.204-222: iteration c of `for cycle in range(max_cycles)`,
\* entered right after a rising edge at which the DUT presents o, up to the
\* await it stops at; past the last iteration the loop ends and TimeoutError
\* is raised, which leaves write/read at l.159/185 with nothing else done.
WaitPready(c, o) ==
    IF c < max_cycles
    THEN /\ cycle' = c
         /\ outcome' = "none"
         /\ IF ReadyIsOne(o.pready)
            THEN /\ pc' = "hold"
                 /\ readySeen' = TRUE
                 /\ errAtReady' = o.pslverr
                 /\ dataAtReady' = o.prdata
            ELSE /\ pc' = "poll"
                 /\ UNCHANGED seen
    ELSE /\ cycle' = cycle
         /\ outcome' = "Timeout"
         /\ pc' = "idle"
         /\ UNCHANGED seen

\* Mutant of ErrCheck: the `is not None` test is missing, an absent
\* slave_error is read like a bound one.
ErrCheck_Unguarded(e) ==
    IF e = Unresolved THEN "ValueError"
    ELSE IF e = 1 THEN "SlaveError"
    ELSE "Success"

\* l.167 / l.194: `self.pslverr is not None and int(self.pslverr.value) == 1`
\* on the value e that slave_error has now; int() raises on an unreadable
\* value.
ErrCheck(e) ==
    IF ~pslverrBound THEN "Success"
    ELSE IF e = Unresolved THEN "ValueError"
    ELSE IF e = 1 THEN "SlaveError"
    ELSE "Success"

\* Mutant of WriteTail: slave_error is taken from the sample at which ready
\* was seen, not from the one after the further edge.
WriteTail_ErrAtReady(o) ==
    /\ psel' = 0
    /\ penable' = 0
    /\ pwrite' = 0
    /\ UNCHANGED <<paddr, pwdata>>
    /\ outcome' = ErrCheck(errAtReady)
    /\ val' = val

\* Mutant of WriteTail: slave_error is checked, and the failure returned,
\* before the deassertion.
WriteTail_ErrBeforeDeassert(o) ==
    IF ErrCheck(o.pslverr) = "Success"
    THEN /\ psel' = 0
         /\ penable' = 0
         /\ pwrite' = 0
         /\ UNCHANGED <<paddr, pwdata>>
         /\ outcome' = "Success"
         /\ val' = val
    ELSE /\ UNCHANGED drv
         /\ outcome' = ErrCheck(o.pslverr)
         /\ val' = val

\* write, l.161-170, after _wait_pready returned.
WriteTail(o) ==
    /\ psel' = 0
    /\ penable' = 0
    /\ pwrite' = 0
    /\ UNCHANGED <<paddr, pwdata>>
    /\ outcome' = ErrCheck(o.pslverr)
    /\ val' = val

\* Mutant of ReadTail: slave_error is taken from the sample at which ready
\* was seen, not from the one after the further edge.
ReadTail_ErrAtReady(o) ==
    IF o.prdata = Unresolved
    THEN /\ outcome' = "ValueError"
         /\ val' = val
         /\ UNCHANGED drv
    ELSE /\ psel' = 0
         /\ penable' = 0
         /\ UNCHANGED <<paddr, pwdata, pwrite>>
         /\ outcome' = ErrCheck(errAtReady)
         /\ val' = IF ErrCheck(errAtReady) = "Success" THEN o.prdata ELSE 0

\* Mutant of ReadTail: the value returned is read_data of the sample at
\* which ready was seen.
ReadTail_DataAtReady(o) ==
    IF o.prdata = Unresolved
    THEN /\ outcome' = "ValueError"
         /\ val' = val
         /\ UNCHANGED drv
    ELSE /\ psel' = 0
         /\ penable' = 0
         /\ UNCHANGED <<paddr, pwdata, pwrite>>
         /\ outcome' = ErrCheck(o.pslverr)
         /\ val' = IF ErrCheck(o.pslverr) = "Success" /\ dataAtReady # Unresolved
                   THEN dataAtReady ELSE 0

\* Mutant of ReadTail: the captured value is returned with the failure too.
ReadTail_KeepsValue(o) ==
    IF o.prdata = Unresolved
    THEN /\ outcome' = "ValueError"
         /\ val' = val
         /\ UNCHANGED drv
    ELSE /\ psel' = 0
         /\ penable' = 0
         /\ UNCHANGED <<paddr, pwdata, pwrite>>
         /\ outcome' = ErrCheck(o.pslverr)
         /\ val' = o.prdata

\* Mutant of ReadTail: select is left asserted, only enable is deasserted.
ReadTail_KeepsSelect(o) ==
    IF o.prdata = Unresolved
    THEN /\ outcome' = "ValueError"
         /\ val' = val
         /\ UNCHANGED drv
    ELSE /\ penable' = 0
         /\ UNCHANGED <<paddr, pwdata, pwrite, psel>>
         /\ outcome' = ErrCheck(o.pslverr)
         /\ val' = IF ErrCheck(o.pslverr) = "Success" THEN o.prdata ELSE 0

\* read, l.187-197, after _wait_pready returned.  int(self.prdata.value)
\* comes first and raises on an unreadable value, before the deassertion.
ReadTail(o) ==
    IF o.prdata = Unresolved
    THEN /\ outcome' = "ValueError"
         /\ val' = val
         /\ UNCHANGED drv
    ELSE /\ psel' = 0
         /\ penable' = 0
         /\ UNCHANGED <<paddr, pwdata, pwrite>>
         /\ outcome' = ErrCheck(o.pslverr)
         /\ val' = IF ErrCheck(o.pslverr) = "Success" THEN o.prdata ELSE 0

\* ------------------------------------------------------------ diagnostics
\* write, l.120-125: one entry when the call is made, before l.129; the
\* formatting is guarded and falls back to a shorter entry.  read has no
\* logging statement (l.172-197).
DispatchEntries(sink, o) ==
    IF sink /\ o = "write" THEN <<"dispatch">> ELSE <<>>

\* write, l.143-157: a snapshot before and one after enable is asserted,
\* each guarded.  read has none.
EnableEntries(sink, o) ==
    IF sink /\ o = "write" THEN <<"before", "after">> ELSE <<>>

\* _wait_pready: the snapshot of every log_every-th iteration (l.209-210)
\* and, past the last iteration, the timeout entry (l.217-221, guarded).
WaitEntries(sink, c) ==
    IF ~sink THEN <<>>
    ELSE IF c >= max_cycles THEN <<"timeout">>
    ELSE IF c % log_every = 0 THEN <<"wait">>
    ELSE <<>>

\* Mutant of DiagRaises: the snapshot of the wait converts ready as well,
\* outside any guard.
DiagRaises_ReadsReady(sink, c, o) ==
    /\ sink /\ c < max_cycles /\ c % log_every = 0
    /\ \/ psel = Unresolved \/ penable = Unresolved \/ pwrite = Unresolved
       \/ o.pready = Unresolved

\* l.209-210 is the one logging statement outside a try: it converts
\* select, enable and write_enable with int(), which raises on a value that
\* cannot be read (ready is taken from pv, converted under the guard of
\* l.205-208).
DiagRaises(sink, c, o) ==
    /\ sink /\ c < max_cycles /\ c % log_every = 0
    /\ \/ psel = Unresolved \/ penable = Unresolved \/ pwrite = Unresolved

\* Iteration c of _wait_pready with its logging: an error raised by l.210
\* leaves _wait_pready and write/read at once.
WaitLogged(sink, c, o) ==
    IF DiagRaises(sink, c, o)
    THEN /\ cycle' = c
         /\ outcome' = "ValueError"
         /\ pc' = "idle"
         /\ UNCHANGED seen
    ELSE WaitPready(c, o)

\* ---------------------------------------------------------------- actions
\* Mutant of BindingsKept: a call that ends in Timeout gives up the
\* slave_error handle.
BindingsKept_DropsErrorOnTimeout ==
    /\ bind' = IF outcome' = "Timeout"
               THEN [bind EXCEPT !["pslverr"] = NoHandle] ELSE bind
    /\ pslverrBound' = (pslverrBound /\ outcome' # "Timeout")

\* write, read and _wait_pready (l.114-222) read self.paddr .. self.pslverr
\* and assign none of them: the handles stay those of __init__.
BindingsKept == UNCHANGED <<bind, pslverrBound>>

\* Mutant of Usable: the instance remembers a Timeout and takes no further
\* call.
Usable_NotAfterTimeout == bState = "bound" /\ outcome # "Timeout"

\* Mutant of Usable: the object is handed out although __init__ raised.
Usable_Always == bState # "new"

\* write and read are methods of the object APBMaster(...) returns: there
\* is one only when __init__ did not raise (l.76-83).
Usable == bState = "bound"

\* What a call resets: the history of the call before it.
Begin ==
    /\ Usable
    /\ pc' = "setup"
    /\ cycle' = 0 /\ outcome' = "none" /\ val' = 0
    /\ edges' = 0 /\ idled' = FALSE /\ readySeen' = FALSE
    /\ errAtReady' = Unresolved /\ dataAtReady' = Unresolved
    /\ errAtHold' = Unresolved /\ dataAtHold' = Unresolved
    /\ lastWrite' = IF op = "write" /\ outcome = "Success"
                     THEN <<addr, data>> ELSE NoWrite
    /\ prevOutcome' = outcome
    /\ wdataBefore' = pwdata
    /\ owed # "me"
    /\ BindingsKept
    /\ UNCHANGED <<dutKind, mem, brest, cvars>>

\* A call of write(a, d) on the idle transactor, up to l.140.
StartWrite(a, d) ==
    /\ pc = "idle"
    /\ DriveWrite(a, d)
    /\ op' = "write" /\ addr' = a /\ data' = d
    /\ logged' = DispatchEntries(hasLog, "write")
    /\ Begin

\* A call of read(a) on the idle transactor, up to l.182.
StartRead(a) ==
    /\ pc = "idle"
    /\ DriveRead(a)
    /\ op' = "read" /\ addr' = a /\ data' = data
    /\ logged' = DispatchEntries(hasLog, "read")
    /\ Begin

\* Mutant of AssertEnable: write_enable is driven low with it.
AssertEnable_ClearsWrite ==
    /\ penable' = 1
    /\ pwrite' = 0
    /\ UNCHANGED <<paddr, pwdata, psel>>

\* l.150 / l.184: assert enable, the other driven signals untouched.
AssertEnable ==
    /\ penable' = 1
    /\ UNCHANGED <<paddr, pwdata, pwrite, psel>>

\* Mutant of WaitDrivesNothing: the bus is released when the wait times out.
WaitDrivesNothing_ReleaseOnTimeout ==
    IF cycle + 1 < max_cycles
    THEN UNCHANGED drv
    ELSE /\ psel' = 0
         /\ penable' = 0
         /\ pwrite' = 0
         /\ UNCHANGED <<paddr, pwdata>>

\* _wait_pready, l.199-222, assigns no signal, on its raise as on its
\* return: TimeoutError leaves write at l.159 (read at l.185) and the
\* deassertion below it is not run.
WaitDrivesNothing == UNCHANGED drv

\* The rising edge that ends Setup (l.140 / l.182 resumes): enable is
\* asserted and _wait_pready takes its first sample in the same time step;
\* what it does to the transaction when the sink is present or not.
EdgeSetupT(sink) ==
    /\ pc = "setup"
    /\ \E o \in DutOut :
        /\ AssertEnable
        /\ WaitLogged(sink, 0, o)
        /\ Resumed(o)
    /\ mem' = MemNext
    /\ edges' = edges + 1
    /\ BindingsKept
    /\ UNCHANGED <<op, addr, data, val, dutKind, idled, held, past, brest>>

EdgeSetup ==
    /\ EdgeSetupT(hasLog)
    /\ logged' = logged \o EnableEntries(hasLog, op) \o WaitEntries(hasLog, 0)

\* A rising edge while _wait_pready waits at l.215: the next iteration.
EdgePollT(sink) ==
    /\ pc = "poll"
    /\ \E o \in DutOut : WaitLogged(sink, cycle + 1, o) /\ Resumed(o)
    /\ WaitDrivesNothing
    /\ mem' = MemNext
    /\ edges' = edges + 1
    /\ BindingsKept
    /\ UNCHANGED <<op, addr, data, val, dutKind, idled, held, past, brest>>

EdgePoll ==
    /\ EdgePollT(hasLog)
    /\ logged' = logged \o WaitEntries(hasLog, cycle + 1)

\* The rising edge after ready was seen (l.213 resumes): _wait_pready
\* returns and write/read runs to its return.
EdgeHold ==
    /\ pc = "hold"
    /\ \E o \in DutOut :
        /\ IF op = "write" THEN WriteTail(o) ELSE ReadTail(o)
        /\ errAtHold' = o.pslverr
        /\ dataAtHold' = o.prdata
        /\ Resumed(o)
    /\ mem' = MemNext
    /\ pc' = "idle"
    /\ edges' = edges + 1
    /\ BindingsKept
    /\ UNCHANGED <<op, addr, data, cycle, dutKind, idled, seen, past, brest, logged>>

\* A rising edge while no call is in progress: only the DUT moves.
EdgeIdle ==
    /\ pc = "idle"
    /\ \E o \in (IF other.pc = "idle" THEN {NoSample} ELSE DutOut) : Resumed(o)
    /\ mem' = MemNext
    /\ idled' = TRUE
    /\ UNCHANGED <<pc, op, addr, data, cycle, outcome, val, pslverrBound, drv,
                   dutKind, edges, seen, held, past, bvars, logged>>

Next ==
    \/ \E a \in Addr, d \in Data : StartWrite(a, d)
    \/ \E a \in Addr : StartRead(a)
    \/ EdgeSetup
    \/ EdgePoll
    \/ EdgeHold
    \/ EdgeIdle

Spec == Init /\ [][Next]_vars

\* __init__, l.106-112: the resolved names are logged once every role is
\* resolved, under a guard.
BoundEntries(sink) == IF sink THEN <<"bound">> ELSE <<>>

\* Mutant of ConstructDrivesNothing: the constructor puts the bus to idle.
ConstructDrivesNothing_IdlesBus ==
    /\ paddr' = 0 /\ pwdata' = 0
    /\ pwrite' = 0 /\ psel' = 0 /\ penable' = 0

\* __init__, l.5-112, assigns no signal: it only looks names up (getattr,
\* hasattr, dir) and logs.
ConstructDrivesNothing == UNCHANGED drv

\* APBMaster(dut, prefix, clk), l.5-112: every role is resolved; the first
\* mandatory role that matches nothing raises out of __init__ (no object
\* exists afterwards) with the message of l.48, which gives the base name
\* and the list candidates; slave_error that matches nothing is bound to
\* None.
\* No signal is assigned.
Construct ==
    /\ bState = "new"
    /\ IF FirstMissing # "none"
       THEN /\ bState' = "BindingError"
            /\ failedRole' = FirstMissing
            /\ errTried' = Candidates(BaseName[FirstMissing])
            /\ logged' = logged
            /\ UNCHANGED <<bind, _names, pslverrBound>>
       ELSE /\ bState' = "bound"
            /\ failedRole' = "none"
            /\ errTried' = <<>>
            /\ logged' = logged \o BoundEntries(hasLog)
            /\ bind' = Resolved
            /\ pslverrBound' = (Resolved["pslverr"] # NoHandle)
            /\ _names' = Names
    /\ ConstructDrivesNothing
    /\ UNCHANGED <<pc, op, addr, data, cycle, outcome, val, dutKind, mem,
                   hist, layout, again, cvars>>

\* APBMaster(dut, prefix, clk) once more, on the same DUT with the same
\* prefix: another object, resolved by the same code.
ConstructAgain ==
    /\ bState # "new" /\ again = NotYet
    /\ again' = IF FirstMissing # "none"
                THEN [state |-> "BindingError", failed |-> FirstMissing]
                ELSE [state |-> "bound", bind |-> Resolved]
    /\ logged' = IF FirstMissing # "none" THEN logged
                 ELSE logged \o BoundEntries(hasLog)
    /\ ConstructDrivesNothing
    /\ UNCHANGED <<pc, op, addr, data, cycle, outcome, val, pslverrBound,
                   dutKind, mem, hist, layout, bState, bind, _names, failedRole,
                   errTried, cvars>>

NextBind == Construct \/ ConstructAgain

SpecBind == InitBind /\ [][NextBind]_vars

\* The scheduler runs the other thread: the running thread is suspended at
\* an await of _clk_cycle (l.224-227) or has ended its call, and nothing in
\* write/read keeps the other thread out.  The signals are the instance's
\* and the DUT's: both threads drive the same ones.
Switch ==
    /\ owed # "me"
    /\ other' = Frame
    /\ pc' = other.pc /\ op' = other.op /\ addr' = other.addr
    /\ data' = other.data /\ cycle' = other.cycle
    /\ outcome' = other.outcome /\ val' = other.val
    /\ edges' = other.edges /\ idled' = other.idled
    /\ readySeen' = other.readySeen /\ errAtReady' = other.errAtReady
    /\ dataAtReady' = other.dataAtReady /\ errAtHold' = other.errAtHold
    /\ dataAtHold' = other.dataAtHold /\ lastWrite' = other.lastWrite
    /\ prevOutcome' = other.prevOutcome /\ wdataBefore' = other.wdataBefore
    /\ owed' = IF owed = "other" THEN "me" ELSE "no"
    /\ UNCHANGED <<pslverrBound, drv, dutKind, mem, bvars, smp, logged>>

NextConc ==
    \/ StartWrite(0, MaxData)
    \/ StartRead(MaxAddr)
    \/ EdgeSetup
    \/ EdgePoll
    \/ EdgeHold
    \/ EdgeIdle
    \/ Switch

SpecConc == InitConc /\ [][NextConc]_vars

\* The transactions on a DUT with a diagnostics sink and on one without.
SpecDiag == InitDiag /\ [][Next]_vars

\* The clock keeps running: a call that is suspended at `await
\* RisingEdge(clk)` (l.140/182, l.212/215) is resumed.  Nothing makes the
\* test start another call.
ClockRuns == WF_vars(EdgeSetup \/ EdgePoll \/ EdgeHold)

\* A DUT with a sink and with slave_error, free to present anything.
InitLive == InitDiag /\ hasLog = TRUE /\ pslverrBound

SpecLive == InitLive /\ [][Next]_vars /\ ClockRuns

\* The transactions on a DUT that holds ready at 1 and on one whose ready
\* cannot be read until it is 1.
SpecReady == InitReady /\ [][Next]_vars

\* ------------------------------------------------------------------ claims
\* The last call has ended (returned or raised) and no other was made since.
Ended == pc = "idle" /\ outcome # "none"
\* ... by returning its result tuple.
Returned == pc = "idle" /\ outcome \in {"Success", "SlaveError"}

\* C1: against the register slave, a write(a, d) that returns without error
\* followed by a read(a) that does not time out returns d with no error.
C1_RoundTrip ==
    (dutKind = "reg" /\ Ended /\ op = "read" /\ outcome # "Timeout"
        /\ lastWrite[1] = addr)
    => (outcome = "Success" /\ val = lastWrite[2])

C1_Witness ==
    /\ dutKind = "reg" /\ Ended /\ op = "read" /\ outcome = "Success"
    /\ lastWrite = <<1, 1>> /\ addr = 1 /\ val = 1 /\ cycle >= 1

\* C2 (as claimed): select is 1 at every rising edge of a transaction and 0
\* at every rising edge outside one: before the first call, and after a
\* call returned its Outcome or raised Timeout.
C2_SelectExactlyInTransaction ==
    /\ (pc # "idle" => psel = 1)
    /\ (pc = "idle" /\ outcome # "ValueError" => psel = 0)

\* C3: in every transaction the DUT sees select=1 and enable=0 at the rising
\* edge that ends Setup and select=1 and enable=1 at every rising edge of
\* Access; enable is 0 in the step that asserts select.
C3_EnablePhases ==
    /\ (pc = "setup" => psel = 1 /\ penable = 0)
    /\ (pc \in {"poll", "hold"} => psel = 1 /\ penable = 1)

C3_Witness ==
    /\ pc = "poll" /\ cycle = 1 /\ op = "read" /\ psel = 1 /\ penable = 1

C5_TimeoutExactlyAtBound ==
    /\ (outcome = "Timeout" => edges - 1 = max_cycles /\ ~readySeen)
    /\ (Ended /\ ~readySeen => outcome = "Timeout")
    /\ (pc = "poll" => edges - 1 < max_cycles)

C5_Witness ==
    /\ Ended /\ outcome = "Timeout" /\ edges = max_cycles + 1

C8_UnboundAlwaysSuccess ==
    (~pslverrBound /\ Ended /\ readySeen) => outcome = "Success"

\* C8 (amended): with slave_error unbound, every write that saw ready, and
\* every read that saw ready and whose read_data is readable when it is
\* captured, returns Success; Failure(SlaveError) is unreachable.
C8_UnboundSuccessIfReadable ==
    /\ (~pslverrBound /\ Ended /\ readySeen
            /\ ~(op = "read" /\ dataAtHold = Unresolved))
        => outcome = "Success"
    /\ (~pslverrBound => outcome # "SlaveError")

C8_Witness ==
    /\ ~pslverrBound /\ Ended /\ readySeen /\ outcome = "Success"
    /\ op = "read" /\ val = 1 /\ cycle >= 1

\* C9 (as claimed): select is 0 whenever write or read hands control back
\* to the caller, by completing (an Outcome is returned) or by aborting
\* (Timeout is raised).
C9_SelectLowOnEveryExit ==
    (Ended /\ outcome \in {"Success", "SlaveError", "Timeout"}) => psel = 0

\* C10: after a Timeout select and enable (and write_enable for a write)
\* are asserted when the exception reaches the caller, and at every later
\* rising edge until another call is made.
C10_TimeoutLeavesBusAsserted ==
    (Ended /\ outcome = "Timeout")
    => (psel = 1 /\ penable = 1 /\ (op = "write" => pwrite = 1))

C10_Witness ==
    /\ Ended /\ outcome = "Timeout" /\ idled /\ op = "write"
    /\ psel = 1 /\ penable = 1 /\ pwrite = 1

\* C11 (as claimed): whenever write or read stops for a reason other than
\* Timeout (Success, SlaveError, an error raised while sampling a DUT
\* signal), select and enable are 0 when control returns to the caller.
C11_DeassertedUnlessTimeout ==
    (Ended /\ outcome # "Timeout") => (psel = 0 /\ penable = 0)

\* C12: Failure(SlaveError) is a returned result after which select and
\* enable are 0, and the call that follows it runs the normal sequence
\* (select=1, enable=0 at the Setup edge; select=1, enable=1 through Access).
C12_SlaveErrorLeavesIdle ==
    /\ (outcome = "SlaveError" => Returned /\ psel = 0 /\ penable = 0)
    /\ (prevOutcome = "SlaveError" /\ pc = "setup" => psel = 1 /\ penable = 0)
    /\ (prevOutcome = "SlaveError" /\ pc \in {"poll", "hold"}
            => psel = 1 /\ penable = 1)

C12_Witness ==
    /\ prevOutcome = "SlaveError" /\ Returned /\ outcome = "Success"
    /\ op = "read" /\ val = 1

\* C13: a call in which ready was never sampled as 1 returns no Outcome:
\* every returned Outcome had ready seen, and a call that ends without
\* having seen ready ends by the raise of Timeout.
C13_TimeoutNeverReturned ==
    /\ (Returned => readySeen)
    /\ (Ended /\ ~readySeen => outcome \notin {"Success", "SlaveError"})
    /\ (outcome = "Timeout" => pc = "idle" /\ val = 0)

C13_Witness ==
    /\ Ended /\ outcome = "Timeout" /\ ~readySeen /\ op = "read" /\ val = 0

\* C14 (as claimed): on success read returns the read_data of the sample at
\* which ready was seen.
C14_ValueAtReadySample ==
    (Returned /\ op = "read" /\ outcome = "Success" /\ dataAtReady # Unresolved)
    => val = dataAtReady

\* C14 (amended): on success read returns the read_data of the sample taken
\* one rising edge after ready was seen, and keeps that value at every
\* later rising edge.
C14_ValueAtHoldSample ==
    (Returned /\ op = "read" /\ outcome = "Success") => val = dataAtHold

C14_Witness ==
    /\ Returned /\ op = "read" /\ outcome = "Success" /\ idled
    /\ dataAtReady = 0 /\ dataAtHold = 1 /\ val = 1

\* C15: a read that ends in Failure(SlaveError) returns the value 0,
\* whatever read_data it captured.
C15_ZeroOnSlaveError ==
    (Ended /\ op = "read" /\ outcome = "SlaveError") => val = 0

C15_Witness ==
    /\ Ended /\ op = "read" /\ outcome = "SlaveError"
    /\ dataAtHold = 1 /\ val = 0

\* C16: a read drives write_enable = 0 from Setup on, and write_data keeps
\* through the read (and after it) the value it had when the read was made.
C16_ReadLeavesWriteData ==
    /\ (op = "read" => pwdata = wdataBefore)
    /\ (op = "read" /\ pc # "idle" => pwrite = 0)

C16_Witness ==
    /\ op = "read" /\ Ended /\ lastWrite = <<1, 1>>
    /\ wdataBefore = 1 /\ pwdata = 1

\* C17: when ready is seen the transactor keeps select=1 and enable=1 over
\* exactly one further rising edge: it is at the hold await with both
\* asserted right after the sample, and the call ends at the very next edge.
C17_OneEdgeHold ==
    /\ (pc = "hold" => psel = 1 /\ penable = 1 /\ readySeen /\ edges = cycle + 1)
    /\ (readySeen /\ pc # "hold" => Ended /\ edges = cycle + 2)
    /\ (Returned => psel = 0 /\ penable = 0)

C17_Witness ==
    /\ Returned /\ readySeen /\ cycle = 1 /\ edges = 3 /\ psel = 0


\* ------------------------------------------------------------ the Binder
\* The places find_signal is said to try for a base name, in order: the
\* prefixed name, the two direction-substituted names and the bare base name
\* on the DUT, then the same four names in each sub-component in turn.
TryOrder(base) ==
    LET names == << PrefixedName(base),
                    <<"o", "_">> \o PrefixedName(base),
                    ReplaceIO(SelfPrefix) \o Us \o base,
                    base >>
    IN [i \in 1..(4 * (1 + Len(dutKids))) |->
            Handle((i - 1) \div 4, names[((i - 1) % 4) + 1])]
\* The place exists: the object is the DUT or a sub-component that is
\* searched, and it has the name.
PlaceExists(h) ==
    IF h.loc = 0 THEN h.name \in dutTop
    ELSE /\ dutKids[h.loc].name[1] # "_"
         /\ h.name \in dutKids[h.loc].sigs
FirstExisting(base) ==
    LET order == TryOrder(base)
        I == {i \in DOMAIN order : PlaceExists(order[i])}
    IN IF I = {} THEN NoHandle
       ELSE order[CHOOSE i \in I : \A j \in I : i <= j]
OnDutItself(base) ==
    \E i \in 1..4 : TryOrder(base)[i].name \in dutTop

\* C19: every role is bound to the first existing place of the fixed order
\* (prefixed, direction-substituted, bare on the DUT, then the same names in
\* each sub-component), so a name on the DUT itself wins over any name that
\* exists only in a sub-component; a construction that fails found no place
\* at all for the role it names.
C19_FirstInFixedOrder ==
    /\ bState = "bound" =>
          \A r \in RoleIds :
             /\ bind[r] = FirstExisting(BaseName[r])
             /\ OnDutItself(BaseName[r]) => bind[r].loc = 0
    /\ bState = "BindingError" =>
          /\ failedRole \in Mandatory
          /\ FirstExisting(BaseName[failedRole]) = NoHandle
\* Construction has bound address to the bare name on the DUT although a
\* sub-component has the prefixed name, and ready inside a sub-component.
C19_Witness ==
    /\ bState = "bound"
    /\ bind["paddr"] = Handle(0, BaseName["paddr"])
    /\ \E k \in 1..Len(dutKids) :
          /\ dutKids[k].name[1] # "_"
          /\ PrefixedName(BaseName["paddr"]) \in dutKids[k].sigs
    /\ bind["pready"].loc > 0

\* The DUT exposes every mandatory role as o_cpu_apb_<base> and nothing that
\* is not o_cpu_apb_<base>.
OnlyOutputNames ==
    /\ \A r \in Mandatory : Str_o_cpu_apb \o Us \o BaseName[r] \in dutTop
    /\ dutTop \subseteq {Str_o_cpu_apb \o Us \o BaseName[r] : r \in RoleIds}

\* C20: constructed with prefix i_cpu_apb on a DUT that exposes only
\* o_cpu_apb_* signals, every mandatory role is bound to o_cpu_apb_<base> on
\* the DUT and no BindingError is raised.
C20_OutputNamesBound ==
    (bState # "new" /\ prefixArg = Str_i_cpu_apb /\ OnlyOutputNames) =>
        /\ bState = "bound"
        /\ \A r \in Mandatory :
              bind[r] = Handle(0, Str_o_cpu_apb \o Us \o BaseName[r])
\* Such a construction has happened, with a sub-component that has the
\* i_cpu_apb_* names.
C20_Witness ==
    /\ bState = "bound" /\ prefixArg = Str_i_cpu_apb /\ OnlyOutputNames
    /\ bind["psel"] = Handle(0, Str_o_cpu_apb \o Us \o BaseName["psel"])
    /\ \E k \in 1..Len(dutKids) :
          Str_i_cpu_apb \o Us \o BaseName["psel"] \in dutKids[k].sigs


\* ------------------------------------------------------------ two threads
\* The running thread calls write or read: it runs l.128-133 / l.177-180.
BeginsCall == pc = "idle" /\ pc' = "setup" /\ other' = other
HasReturned(o) == o \in {"none", "Success", "SlaveError"}

\* C18 as stated: a call begins driving the bus only when select is
\* deasserted, also when the other thread is suspended at a clock edge in a
\* call of its own.
C18_NoDriveBeforeDeassert ==
    [][BeginsCall => psel = 0]_vars

\* C18: a call made when no other call on the instance is in progress and
\* the calls before it returned finds select deasserted and asserts it; a
\* call made while the other thread is suspended in a call is not held back:
\* it drives its Setup values (select 1, enable 0, its address) at once.
C18_SerializedCallsFindSelectLow ==
    [][/\ (BeginsCall /\ other.pc = "idle" /\ HasReturned(outcome)
             /\ HasReturned(other.outcome)) => (psel = 0 /\ psel' = 1)
       /\ (BeginsCall /\ other.pc # "idle") =>
             (psel' = 1 /\ penable' = 0 /\ paddr' = addr')]_vars
\* One thread's call returned, then the other thread made a call and it
\* returned, and now the first thread's next call has begun, alone.
C18_Witness ==
    /\ pc = "setup" /\ edges = 0 /\ prevOutcome = "Success"
    /\ other.pc = "idle" /\ other.outcome = "Success" /\ other.op = "read"
    /\ op = "write" /\ psel = 1

\* ------------------------------------------------- the Binder, continued
\* The DUT exposes every mandatory role as i_cpu_apb_<base>, on the DUT
\* itself, and no mandatory role under any other name anywhere.
OnlyInputNames ==
    /\ \A r \in RoleIds \ {"pslverr"} :
          /\ Str_i_cpu_apb \o Us \o BaseName[r] \in dutTop
          /\ \A f \in 2..Len(Forms) : FormName(f, BaseName[r]) \notin dutTop
    /\ \A k \in 1..Len(dutKids) : dutKids[k].sigs = {}

\* C21 as stated: a prefix carrying the output marker is also tried with the
\* input marker, so prefix o_cpu_apb binds the roles of a DUT that exposes
\* them as i_cpu_apb_<base>.
C21_OutputPrefixTriedAsInput ==
    (bState # "new" /\ prefixArg = Str_o_cpu_apb /\ OnlyInputNames) =>
        /\ bState = "bound"
        /\ \A r \in RoleIds \ {"pslverr"} :
              bind[r] = Handle(0, Str_i_cpu_apb \o Us \o BaseName[r])

\* C21: the markers are substituted in one direction only, input to output.
\* With prefix o_cpu_apb no candidate carries the input marker: on a DUT that
\* exposes the roles only as i_cpu_apb_<base> construction fails at the first
\* role; with prefix i_cpu_apb the o_cpu_apb_<base> names are candidates.
C21_InputToOutputOnly ==
    /\ (bState # "new" /\ prefixArg = Str_o_cpu_apb /\ OnlyInputNames) =>
          (bState = "BindingError" /\ failedRole = "paddr")
    /\ (bState # "new" /\ prefixArg = Str_o_cpu_apb) =>
          \A r \in RoleIds : \A i \in 1..3 :
             Candidates(BaseName[r])[i] # Str_i_cpu_apb \o Us \o BaseName[r]
    /\ (bState # "new" /\ prefixArg = Str_i_cpu_apb) =>
          \A r \in RoleIds :
             Candidates(BaseName[r])[3] = Str_o_cpu_apb \o Us \o BaseName[r]
\* Construction with prefix o_cpu_apb has failed on a DUT that has every
\* mandatory role as i_cpu_apb_<base>.
C21_Witness ==
    bState = "BindingError" /\ prefixArg = Str_o_cpu_apb /\ OnlyInputNames

\* A mandatory role has no place at all: none of its names is on the DUT or
\* in a sub-component that is searched.
NoPlaceFor(r) == FirstExisting(BaseName[r]) = NoHandle
SomeCall ==
    \/ \E a \in Addr, d \in Data : StartWrite(a, d)
    \/ \E a \in Addr : StartRead(a)

\* C22: when a mandatory role matches no candidate on the DUT and none in a
\* sub-component, construction fails; the error gives the role (its base
\* name) and the candidates, together every name that was tried; and no
\* write or read can be issued afterwards.
C22_MissingRoleFailsConstruction ==
    /\ (bState # "new" /\ \E r \in RoleIds \ {"pslverr"} : NoPlaceFor(r)) =>
          /\ bState = "BindingError"
          /\ failedRole \in RoleIds \ {"pslverr"}
          /\ NoPlaceFor(failedRole)
          /\ {errTried[i] : i \in DOMAIN errTried} \cup {<<failedRole>>}
                = {TryOrder(BaseName[failedRole])[i].name :
                      i \in DOMAIN TryOrder(BaseName[failedRole])}
    /\ bState = "BindingError" => ~ENABLED SomeCall
    /\ (bState = "bound" /\ pc = "idle") => ENABLED SomeCall
\* Construction has failed on ready: the driven roles exist, ready does not.
C22_Witness ==
    /\ bState = "BindingError" /\ failedRole = "pready"
    /\ ~NoPlaceFor("paddr") /\ Len(errTried) = 3

\* The DUT with slave_error added at place q, under the form of q.
TopPlus(q) ==
    IF q.loc = 0 THEN dutTop \cup {FormName(q.form, BaseName["pslverr"])}
    ELSE dutTop
KidsPlus(q) ==
    [k \in 1..Len(dutKids) |->
        IF k = q.loc
        THEN [dutKids[k] EXCEPT !.sigs = @ \cup {FormName(q.form, BaseName["pslverr"])}]
        ELSE dutKids[k]]

\* C23: when slave_error matches no candidate (and every mandatory role
\* matches one) construction succeeds with slave_error absent, and every
\* mandatory role is bound as find_signal binds it on the same DUT with
\* slave_error added, at any place and under any form.
C23_OptionalRoleAbsent ==
    /\ (/\ bState # "new"
        /\ \A r \in RoleIds \ {"pslverr"} : ~NoPlaceFor(r)
        /\ NoPlaceFor("pslverr")) =>
          (bState = "bound" /\ bind["pslverr"] = NoHandle /\ ~pslverrBound)
    /\ (bState = "bound" /\ bind["pslverr"] = NoHandle) =>
          \A q \in Places :
             \A r \in RoleIds \ {"pslverr"} :
                FindIn(BaseName[r], TopPlus(q), KidsPlus(q)) = bind[r]
\* Construction succeeded without slave_error on a DUT that has ready in a
\* sub-component only.
C23_Witness ==
    /\ bState = "bound" /\ bind["pslverr"] = NoHandle /\ ~pslverrBound
    /\ bind["pready"].loc > 0 /\ bind["paddr"].loc = 0

C25_ConstructionWritesNothing ==
    [][(bState' # bState \/ again' # again) =>
          (paddr' = paddr /\ pwdata' = pwdata /\ pwrite' = pwrite
           /\ psel' = psel /\ penable' = penable /\ mem' = mem)]_vars
\* Two constructions have run, and the address and write data that were
\* left on the bus are still there.
C25_Witness ==
    /\ bState # "new" /\ again # NotYet
    /\ paddr = MaxAddr /\ pwdata = MaxData /\ psel = 0

\* ---------------------------------------------------------- diagnostics

\* C26: diagnostics never change a transaction: every step a call takes on a
\* DUT with a sink is a step of the same call on a DUT without one, and the
\* other way round -- the same DUT outputs give the same driven values, the
\* same samples, the same edge count and the same outcome.
C26_DiagnosticsChangeNothing ==
    [][ /\ hasLog' = hasLog
        /\ pc = "setup" => (EdgeSetupT(TRUE) /\ EdgeSetupT(FALSE))
        /\ pc = "poll" => (EdgePollT(TRUE) /\ EdgePollT(FALSE)) ]_vars

\* A write on a DUT with a sink has timed out and every entry was recorded on
\* the way: dispatch, the two snapshots around enable, the snapshots of the
\* wait and the timeout entry.
C26_Witness ==
    /\ hasLog /\ op = "write" /\ pc = "idle" /\ outcome = "Timeout"
    /\ Len(logged) >= 5
    /\ logged[1] = "dispatch" /\ logged[Len(logged)] = "timeout"
    /\ \E i \in 1..Len(logged) : logged[i] = "wait"

\* C27: with a sink present every call, read as well as write, has recorded
\* one dispatch entry by the time it has driven its Setup values.
C27_DispatchEntryForEveryCall ==
    (hasLog /\ pc = "setup") => logged = <<"dispatch">>

\* ----------------------------------------------------------- termination
AllExits == {"Success", "SlaveError", "Timeout", "ValueError"}

\* C28 as stated: while the clock runs every call ends by returning or by
\* raising Timeout, within max_cycles + 1 rising edges.
C28_EndsByReturnOrTimeout ==
    /\ [](edges <= max_cycles + 1)
    /\ (pc # "idle") ~> (Ended /\ outcome \in {"Success", "SlaveError", "Timeout"})

\* C28, amended: while the clock runs every call ends within max_cycles + 1
\* rising edges (one Setup edge, at most max_cycles edges of the ready
\* wait), by returning, by raising Timeout, or by raising the conversion
\* error of a sample taken after ready was seen.
C28_TerminatesWithinBound ==
    /\ [](edges <= max_cycles + 1)
    /\ [](pc # "idle" => edges <= max_cycles)
    /\ [](Ended => outcome \in AllExits)
    /\ (pc # "idle") ~> Ended

\* A call that saw ready at its last sample has ended after max_cycles + 1
\* edges, and so has one that timed out.
C28_Witness ==
    /\ Ended /\ edges = max_cycles + 1
    /\ readySeen /\ cycle = max_cycles - 1

\* C29: a call raises Timeout exactly when none of the max_cycles samples
\* of the wait read 1: a Timeout has taken all max_cycles samples without
\* seeing ready, a call that saw ready does not end in Timeout, and at every
\* sample up to and including the last one a ready that reads 1 is accepted.
C29_TimeoutIffNoSampleReady ==
    /\ (outcome = "Timeout" => (~readySeen /\ cycle + 1 = max_cycles))
    /\ (Ended /\ readySeen => outcome # "Timeout")
    /\ (Ended /\ outcome # "Timeout" => (readySeen /\ cycle + 1 <= max_cycles))
    /\ (pc = "setup" => ENABLED (EdgeSetup /\ pc' = "hold" /\ cycle' = 0))
    /\ (pc = "poll" /\ cycle + 1 < max_cycles
            => ENABLED (EdgePoll /\ pc' = "hold" /\ cycle' = cycle + 1))

\* ready was first read as 1 at the last permitted sample and the write
\* returned Success.
C29_Witness ==
    /\ op = "write" /\ pc = "idle" /\ outcome = "Success"
    /\ readySeen /\ cycle + 1 = max_cycles

\* ------------------------------------------------- the bindings in use

\* C30: the bindings are fixed at construction: no step of a write or read,
\* whatever its outcome, changes the signal a role is bound to, and
\* slave_error stays absent if it was absent; after any sequence of calls
\* every role is bound to what __init__ resolved on this DUT.
C30_BindingsFixed ==
    /\ [][bind' = bind /\ pslverrBound' = pslverrBound]_vars
    /\ [](bind = Resolved /\ pslverrBound = (bind["pslverr"] # NoHandle))

\* A call has ended in Timeout after one that returned SlaveError, and
\* slave_error is still the signal it was bound to.
C30_Witness ==
    /\ Ended /\ outcome = "Timeout" /\ prevOutcome = "SlaveError"
    /\ bind = Resolved /\ bind["pslverr"] # NoHandle /\ pslverrBound

\* ------------------------------------------------ the Binder, its inputs
\* n separators.
Pad(n) == [i \in 1..n |-> "_"]

\* C31: trailing separators of the prefix do not matter: what construction
\* with prefix P did, construction with P followed by up to MaxPad '_'
\* characters does on the same DUT -- every role bound to the same signal,
\* or the same role missing.
C31_TrailingSeparatorsIgnored ==
    bState # "new" =>
        \A n \in 0..MaxPad :
            LET p == RStrip(prefixArg \o Pad(n))
            IN /\ bState = "bound" =>
                     \A r \in RoleIds :
                        FindWith(p, BaseName[r], dutTop, dutKids) = bind[r]
               /\ bState = "BindingError" =>
                     FindWith(p, BaseName[failedRole], dutTop, dutKids) = NoHandle

\* Construction with the prefix 'i_cpu_apb_' has bound address to
\* i_cpu_apb_paddr on the DUT.
C31_Witness ==
    /\ prefixArg = Str_i_cpu_apb \o Us /\ bState = "bound"
    /\ bind["paddr"] = Handle(0, Str_i_cpu_apb \o Us \o BaseName["paddr"])
    /\ bind["pready"].loc > 0

\* The access path of a handle: its name, after "<attr>." when it is on the
\* sub-component attr; None for no handle.
PathOf(h) ==
    IF h = NoHandle THEN NoPath
    ELSE IF h.loc = 0 THEN h.name
    ELSE dutKids[h.loc].name \o Dot \o h.name

\* C32: after a construction that succeeded the access path recorded for
\* every role names the candidate the role's handle was bound to -- the same
\* name, on the same sub-component when the match is nested -- and the path
\* recorded for an unbound slave_error is None.
C32_PathNamesTheHandle ==
    bState = "bound" =>
        /\ \A r \in RoleIds : _names[r] = PathOf(bind[r])
        /\ bind["pslverr"] = NoHandle => _names["pslverr"] = NoPath
        /\ \A r \in Mandatory : _names[r] # NoPath

\* Construction has bound address to its bare name on the DUT although the
\* DUT has a prefixed address elsewhere, ready inside a sub-component, and
\* no slave_error.
C32_Witness ==
    /\ bState = "bound"
    /\ bind["paddr"] = Handle(0, BaseName["paddr"]) /\ _names["paddr"] = BaseName["paddr"]
    /\ bind["pready"].loc > 0
    /\ _names["pready"] = dutKids[bind["pready"].loc].name \o Dot \o bind["pready"].name
    /\ bind["pslverr"] = NoHandle /\ _names["pslverr"] = NoPath

\* ------------------------------------------------------- the edge count

\* C33: Setup lasts one rising edge and the first sample of ready is taken
\* in the step that asserts enable: a call is at its Setup await before any
\* edge with enable 0, the number of samples taken is the number of edges
\* since, a call whose ready was first read as 1 at sample k (cycle = k - 1)
\* ends after k + 1 edges, and on a DUT that holds ready at 1 every call
\* goes from Setup to the hold await and ends after two edges.
C33_SetupOneEdgeThenSample ==
    /\ (pc = "setup" => edges = 0 /\ penable = 0 /\ psel = 1)
    /\ (pc \in {"poll", "hold"} => penable = 1 /\ edges = cycle + 1)
    /\ (Ended /\ readySeen => edges = (cycle + 1) + 1)
    /\ (dutKind = "prompt" =>
            /\ pc # "poll"
            /\ (pc = "hold" => cycle = 0 /\ edges = 1)
            /\ (Ended => readySeen /\ edges = 2))

\* A read on the DUT that holds ready at 1 has returned after two edges,
\* and so did the call before it.
C33_Witness ==
    /\ dutKind = "prompt" /\ op = "read" /\ Returned /\ edges = 2
    /\ prevOutcome \in {"Success", "SlaveError"}

\* C34: a ready that cannot be read is treated as not ready.  On a DUT
\* whose ready is unreadable until it is 1, a wait that has not seen ready
\* has raised nothing and has consumed one edge per sample; a call that
\* never saw ready ends in Timeout after max_cycles + 1 edges, as with ready
\* held at 0; a conversion error comes only from a sample taken after ready
\* was seen.
C34_UnreadableReadyIsNotReady ==
    dutKind = "floating" =>
        /\ (pc = "poll" => ~readySeen /\ outcome = "none" /\ edges = cycle + 1)
        /\ (Ended /\ ~readySeen => outcome = "Timeout" /\ edges = max_cycles + 1)
        /\ (outcome = "ValueError" => readySeen)

\* A write whose every sample of ready was unreadable has ended in Timeout
\* after max_cycles + 1 edges.
C34_Witness ==
    /\ dutKind = "floating" /\ op = "write" /\ Ended /\ ~readySeen
    /\ outcome = "Timeout" /\ cycle = max_cycles - 1 /\ edges = max_cycles + 1

\* ------------------------------------------------------ after a Timeout

\* C35: a Timeout does not block reuse.  After a call that ended in Timeout
\* another call can be made; it is at its Setup await with select=1 and
\* enable=0 before any edge, has both asserted through Access, does not time
\* out once it has seen ready, and returns Success when the sampled
\* slave_error (if bound) is 0 and, for a read, read_data is readable.
C35_ReusableAfterTimeout ==
    /\ (Ended /\ outcome = "Timeout" => ENABLED SomeCall)
    /\ (prevOutcome = "Timeout" =>
            /\ (pc = "setup" => psel = 1 /\ penable = 0 /\ edges = 0)
            /\ (pc \in {"poll", "hold"} => psel = 1 /\ penable = 1)
            /\ (pc = "hold" => readySeen)
            /\ (Ended /\ readySeen => outcome # "Timeout")
            /\ (Ended /\ readySeen
                    /\ (pslverrBound => errAtHold = 0)
                    /\ (op = "read" => dataAtHold # Unresolved)
                  => outcome = "Success"))

\* The call made after a Timeout was a read and returned Success with the
\* value 1.
C35_Witness ==
    /\ prevOutcome = "Timeout" /\ op = "read" /\ Returned
    /\ outcome = "Success" /\ val = 1 /\ psel = 0 /\ penable = 0

\* --------------------------------------------- the Binder, role by role
\* The names of a set that are names of role r: they end in its base name.
NamesOf(r, sigs) == {n \in sigs : Len(n) > 0 /\ n[Len(n)] = r}
KidsOnly(r) ==
    [k \in 1..Len(dutKids) |-> [dutKids[k] EXCEPT !.sigs = NamesOf(r, @)]]

\* The DUT of the test bench: the driven roles as i_cpu_apb_<base>, the
\* sampled ones, slave_error included, as o_cpu_apb_<base>, nothing else;
\* the prefix given is i_cpu_apb.
MixedDut ==
    /\ SelfPrefix = Str_i_cpu_apb
    /\ dutTop = {Str_i_cpu_apb \o Us \o BaseName[r] : r \in Driven}
                \cup {Str_o_cpu_apb \o Us \o BaseName[r] : r \in RoleIds \ Driven}
    /\ \A k \in 1..Len(dutKids) : dutKids[k].sigs = {}

\* C36: each role is resolved independently of the others.  On the DUT of
\* the test bench construction succeeds and binds every driven role to
\* i_cpu_apb_<base> and every sampled role to o_cpu_apb_<base>; and on every
\* DUT every role is bound as find_signal binds it when the names of all
\* other roles are taken away.
C36_RolesResolvedIndependently ==
    /\ (bState # "new" /\ MixedDut) =>
          /\ bState = "bound"
          /\ \A r \in Driven :
                bind[r] = Handle(0, Str_i_cpu_apb \o Us \o BaseName[r])
          /\ \A r \in RoleIds \ Driven :
                bind[r] = Handle(0, Str_o_cpu_apb \o Us \o BaseName[r])
    /\ bState = "bound" =>
          \A r \in RoleIds :
             bind[r] = FindIn(BaseName[r], NamesOf(r, dutTop), KidsOnly(r))

\* Construction on the DUT of the test bench has bound address to
\* i_cpu_apb_paddr and ready to o_cpu_apb_pready.
C36_Witness ==
    /\ bState = "bound" /\ MixedDut
    /\ bind["paddr"] = Handle(0, Str_i_cpu_apb \o Us \o BaseName["paddr"])
    /\ bind["pready"] = Handle(0, Str_o_cpu_apb \o Us \o BaseName["pready"])
    /\ pslverrBound

====
